---------------------------- MODULE Spec2Model ----------------------------
(***************************************************************************)
(* A model of extract_bazel_flags.py: the module-level statements          *)
(* (shutil.which, os.makedirs, the dump_flags calls of the script body)    *)
(* and dump_flags itself, one action per step of the function.             *)
(*                                                                         *)
(* Text is a sequence of code points, a byte sequence a sequence of        *)
(* numbers 0..255.  The file system is the output directory and the files  *)
(* in it.  The external tool, and the file system's failures, are the      *)
(* environment: their outcomes are chosen nondeterministically.            *)
(***************************************************************************)
EXTENDS Integers, Sequences, FiniteSets, TLC

(***************************************************************************)
(* Bounds of the model.                                                    *)
(***************************************************************************)
\* How many of the script's dump_flags lines (the last ones) may be enabled.
NumVersions == 2
\* The longest standard output the tool prints, in characters.
MaxOut == 4

(***************************************************************************)
(* The script body: its dump_flags lines, in source order.                 *)
(***************************************************************************)
SourceVersions ==
  << "6.0.0", "6.1.0", "6.1.1", "6.1.2", "6.2.0", "6.2.1", "6.3.0", "6.3.1",
     "6.3.2", "6.4.0", "6.5.0", "7.0.0", "7.0.1", "7.0.2", "7.1.0" >>

\* The lines that a run may have uncommented: the last NumVersions ones.
Lines == { i \in 1..Len(SourceVersions) : i > Len(SourceVersions) - NumVersions }

Versions == { SourceVersions[i] : i \in Lines }

(***************************************************************************)
(* Characters and base64.                                                  *)
(***************************************************************************)
\* '=' , the padding character.
PadChar == 61
\* '\n', an ASCII character outside the base64 alphabet.
NewlineChar == 10
\* 'Q', a character of the base64 alphabet (sextet 16).
DataChar == 81
\* U+00E9, a character outside ASCII.
NonAsciiChar == 233

\* The ASCII characters the tool's output is drawn from.
AsciiChars == { DataChar, PadChar, NewlineChar }

IsAscii(c) == c < 128

\* B64Index with the table of the letters A-Z shifted by one.
B64IndexShifted(c) ==
  IF c >= 65 /\ c <= 90 THEN c - 64
  ELSE IF c >= 97 /\ c <= 122 THEN c - 71
  ELSE IF c >= 48 /\ c <= 57 THEN c + 4
  ELSE IF c = 43 THEN 62
  ELSE IF c = 47 THEN 63
  ELSE -1

\* The sextet of a character of the alphabet A-Z a-z 0-9 + /, and -1 for
\* any other character.
B64Index(c) ==
  IF c >= 65 /\ c <= 90 THEN c - 65
  ELSE IF c >= 97 /\ c <= 122 THEN c - 71
  ELSE IF c >= 48 /\ c <= 57 THEN c + 4
  ELSE IF c = 43 THEN 62
  ELSE IF c = 47 THEN 63
  ELSE -1

InAlphabet(c) == B64Index(c) >= 0

DecodeError == [ok |-> FALSE, data |-> << >>]

Decoded(bs) == [ok |-> TRUE, data |-> bs]

\* The scan of the non-validating decoder: a character outside the alphabet
\* is skipped, a pad is counted only in the second half of a group, enough
\* pads end the scan (what follows is not read), and the scan must not end
\* inside a group.
RECURSIVE B64Scan(_, _, _, _, _, _)
B64Scan(s, i, quad, leftchar, pads, out) ==
  IF i > Len(s)
  THEN IF quad # 0 THEN DecodeError ELSE Decoded(out)
  ELSE IF s[i] = PadChar
  THEN IF quad >= 2 /\ quad + pads + 1 >= 4
       THEN Decoded(out)
       ELSE B64Scan(s, i + 1, quad, leftchar,
                    IF quad >= 2 THEN pads + 1 ELSE pads, out)
  ELSE IF ~InAlphabet(s[i])
  THEN B64Scan(s, i + 1, quad, leftchar, pads, out)
  ELSE LET v == B64Index(s[i]) IN
       CASE quad = 0 -> B64Scan(s, i + 1, 1, v, 0, out)
         [] quad = 1 -> B64Scan(s, i + 1, 2, v % 16, 0,
                                Append(out, (leftchar * 4 + v \div 16) % 256))
         [] quad = 2 -> B64Scan(s, i + 1, 3, v % 4, 0,
                                Append(out, (leftchar * 16 + v \div 4) % 256))
         [] OTHER    -> B64Scan(s, i + 1, 0, 0, 0,
                                Append(out, (leftchar * 64 + v) % 256))

\* B64Decode of the text with the padding it may lack added to it.
B64DecodePadded(s) ==
  IF \E i \in 1..Len(s) : ~IsAscii(s[i])
  THEN DecodeError
  ELSE B64Scan(s \o << PadChar, PadChar >>, 1, 0, 0, 0, << >>)

\* base64.b64decode(s) of a str, validate left at its default (False): the
\* text is first encoded as ASCII, which fails on any other character.
B64Decode(s) ==
  IF \E i \in 1..Len(s) : ~IsAscii(s[i])
  THEN DecodeError
  ELSE B64Scan(s, 1, 0, 0, 0, << >>)

(***************************************************************************)
(* The file system, the environment and the external tool.                 *)
(***************************************************************************)
Bytes == 0..255

Absent == [exists |-> FALSE, data |-> << >>]

File(bs) == [exists |-> TRUE, data |-> bs]

\* Contents a file of the directory may hold before the script runs.
OldData == << 7, 7 >>

\* OutPath of a script that names one version in the path, whatever it dumps.
OutPathLatest(version) == << "proto/flag-dumps", "7.1.0", ".data" >>

\* f"proto/flag-dumps/{version}.data": the directory, the version and the
\* extension, kept apart (string concatenation being injective in version).
OutPath(version) == << "proto/flag-dumps", version, ".data" >>

\* A file of the output directory that is no version's dump.
OtherPath == << "proto/flag-dumps", "README", ".md" >>

\* The files of the directory that the model follows: one a version, and
\* the other one.
Paths == { << "proto/flag-dumps", v, ".data" >> : v \in Versions } \cup { OtherPath }

None == "None"

\* Every ASCII text of at most n characters.
AsciiTexts(n) == UNION { [1..k -> AsciiChars] : k \in 0..n }

\* The texts of at most n characters the tool's output is drawn from: the
\* ASCII ones, and those with one character outside ASCII, at the end.
Texts(n) ==
  AsciiTexts(n) \cup { Append(s, NonAsciiChar) : s \in AsciiTexts(n - 1) }

\* What the tool prints on standard error.
ErrTexts == { "", "unknown version" }

\* subprocess.CompletedProcess, with capture_output and encoding="utf8".
NoResult == [has |-> FALSE, returncode |-> 0, stdout |-> << >>, stderr |-> ""]

Completed(rc, out, err) ==
  [has |-> TRUE, returncode |-> rc, stdout |-> out, stderr |-> err]

\* The outcomes of one invocation of the tool whose output is UTF-8 text:
\* any standard output with exit status 0, and any exit status and standard
\* error with a standard output of at most one character.
Outcomes ==
  { Completed(0, out, "") : out \in Texts(MaxOut) }
    \cup { Completed(rc, out, err) : rc \in { 0, 1 }, out \in Texts(1), err \in ErrTexts }

\* A few of the outcomes, one of each kind: a failure of the tool, an
\* output that cannot be decoded, an output that decodes to nothing, and
\* two payloads of different lengths.
SampleOutcomes ==
  { Completed(1, << >>, "unknown version") }
    \cup { Completed(0, out, "") :
             out \in { << DataChar >>, << NewlineChar >>,
                       << DataChar, DataChar, PadChar, PadChar >>,
                       << DataChar, DataChar, DataChar, DataChar >> } }

NoBytes == [has |-> FALSE, data |-> << >>]

NoError == [kind |-> "none", detail |-> ""]

Raised(kind, detail) == [kind |-> kind, detail |-> detail]

Threads == { "main", "other" }

VARIABLES
  bazelisk,     \* the module's global: shutil.which("bazel"), or None
  home,         \* os.environ["HOME"], or None when it is not set
  tool,         \* which outcomes an invocation of the tool may have
  dirState,     \* proto/flag-dumps: "absent", "file" (not a directory), "dir"
  files,        \* the files of proto/flag-dumps: path -> Absent or File(bytes)
  enabled,      \* the dump_flags lines of the script body that are not comments
  ip,           \* the line of the script's current (or last) dump_flags call
  pc,           \* each thread's position
  arg,          \* each thread's dump_flags parameter, version
  result,       \* dump_flags' local result
  bytes,        \* dump_flags' local bytes
  error,        \* the exception a thread raised
  running,      \* the versions whose tool process is alive
  snap,         \* history: files as they were when the current call began
  invocations,  \* history: version -> tool processes started for it in this run
  dumped,       \* history: version -> its file when its dump returned, this run
  observe,      \* history: whether prev and repeat are kept
  prev,         \* history: the script's last dump_flags call, if it returned
  repeat        \* history: the current call repeats the one before it

envVars == << bazelisk, home, tool >>
fsVars == << dirState, files >>
scriptVars == << enabled, ip >>
frameVars == << arg, result, bytes >>
histVars == << snap, invocations, dumped >>
twiceVars == << observe, prev, repeat >>
vars == << bazelisk, home, tool, dirState, files, enabled, ip, pc, arg, result, bytes,
           error, running, snap, invocations, dumped, observe, prev, repeat >>

\* The outcomes the tool may have in this behaviour.
ToolOutcomes == IF tool = "sample" THEN SampleOutcomes ELSE Outcomes

NotDumped == [has |-> FALSE, file |-> Absent]

NoCall == [version |-> None, stdout |-> << >>]

\* A call of dump_flags(version) that returned, the tool having printed out.
Call(version, out) == [version |-> version, stdout |-> out]

\* The directory as a first run may find it: it holds a file that is no
\* version's dump.  (Dumps are found there by the runs that follow.)
InitialFiles == [p \in Paths |-> IF p = OtherPath THEN File(OldData) ELSE Absent]

NoFiles == [p \in Paths |-> Absent]

\* The history of successive calls, where it is kept: the last call that
\* returned becomes p, and r tells whether the current call repeats it.
Record(p, r) ==
  /\ prev' = (IF observe THEN p ELSE prev)
  /\ repeat' = (IF observe THEN r ELSE repeat)
  /\ UNCHANGED observe

InitFrames ==
  /\ result = [t \in Threads |-> NoResult]
  /\ bytes = [t \in Threads |-> NoBytes]
  /\ error = [t \in Threads |-> NoError]
  /\ running = {}

InitHistory ==
  /\ snap = files
  /\ invocations = [v \in Versions |-> 0]
  /\ dumped = [v \in Versions |-> NotDumped]
  /\ prev = NoCall
  /\ repeat = FALSE

InitScript ==
  /\ bazelisk = None
  /\ home \in { None, "/root" }
  /\ tool = "any"
  /\ dirState \in { "absent", "file", "dir" }
  /\ files = (IF dirState = "dir" THEN InitialFiles ELSE NoFiles)
  /\ enabled \in SUBSET Lines
  /\ ip = 0
  /\ pc = [t \in Threads |-> IF t = "main" THEN "start" ELSE "idle"]
  /\ arg = [t \in Threads |-> None]
  /\ InitFrames
  /\ InitHistory

Init == InitScript /\ observe = FALSE

(***************************************************************************)
(* The module-level statements.                                            *)
(***************************************************************************)
\* bazelisk = shutil.which("bazel")
Which ==
  /\ pc["main"] = "start"
  /\ bazelisk' \in { None, "/usr/bin/bazel" }
  /\ pc' = [pc EXCEPT !["main"] = "makedirs"]
  /\ UNCHANGED << home, tool, fsVars, scriptVars, frameVars, error, running,
                  histVars, twiceVars >>

\* ExistOk of a script that leaves exist_ok at its default.
ExistOkDefault == FALSE

\* The exist_ok argument of os.makedirs.
ExistOk == TRUE

\* os.makedirs("proto/flag-dumps", exist_ok=True): a directory that exists is
\* left alone, a path that is no directory is an error, and creating the
\* directory may fail.
Makedirs ==
  /\ pc["main"] = "makedirs"
  /\ \/ /\ dirState = "dir"
        /\ ExistOk
        /\ pc' = [pc EXCEPT !["main"] = "idle"]
        /\ UNCHANGED << dirState, error >>
     \/ /\ dirState = "file" \/ (dirState = "dir" /\ ~ExistOk)
        /\ pc' = [pc EXCEPT !["main"] = "raised"]
        /\ error' = [error EXCEPT !["main"] = Raised("FileExistsError", "")]
        /\ UNCHANGED dirState
     \/ /\ dirState = "absent"
        /\ dirState' = "dir"
        /\ pc' = [pc EXCEPT !["main"] = "idle"]
        /\ UNCHANGED error
     \/ /\ dirState = "absent"
        /\ pc' = [pc EXCEPT !["main"] = "raised"]
        /\ error' = [error EXCEPT !["main"] = Raised("OSError", "")]
        /\ UNCHANGED dirState
  /\ UNCHANGED << envVars, files, scriptVars, frameVars, running, histVars,
                  twiceVars >>

\* The enabled lines after line i.
Later(i) == { j \in enabled : j > i }

Min(S) == CHOOSE x \in S : \A y \in S : x <= y

\* BetweenCalls of a script that catches what a call raises and goes on.
BetweenCallsOrRaised == pc["main"] \in { "idle", "returned", "raised" }

\* The script is between two statements: no call is in progress.
BetweenCalls == pc["main"] \in { "idle", "returned" }

\* The next dump_flags(...) line of the script body: the last call's frame
\* is gone, and a new one is entered.
CallNext ==
  /\ BetweenCalls
  /\ Later(ip) # {}
  /\ ip' = Min(Later(ip))
  /\ pc' = [pc EXCEPT !["main"] = "call"]
  /\ arg' = [arg EXCEPT !["main"] = SourceVersions[ip']]
  /\ result' = [result EXCEPT !["main"] = NoResult]
  /\ bytes' = [bytes EXCEPT !["main"] = NoBytes]
  /\ snap' = files
  /\ Record(prev, FALSE)
  /\ UNCHANGED << envVars, fsVars, enabled, error, running, invocations, dumped >>

\* The end of the script.
Exit ==
  /\ BetweenCalls
  /\ Later(ip) = {}
  /\ pc' = [pc EXCEPT !["main"] = "exit"]
  /\ result' = [result EXCEPT !["main"] = NoResult]
  /\ bytes' = [bytes EXCEPT !["main"] = NoBytes]
  /\ UNCHANGED << envVars, fsVars, scriptVars, arg, error, running, histVars,
                  twiceVars >>

\* The script is run again, on the file system the last run left.
Rerun ==
  /\ pc["main"] \in { "exit", "raised" }
  /\ pc' = [pc EXCEPT !["main"] = "start"]
  /\ bazelisk' = None
  /\ ip' = 0
  /\ arg' = [arg EXCEPT !["main"] = None]
  /\ error' = [error EXCEPT !["main"] = NoError]
  /\ snap' = files
  /\ invocations' = [v \in Versions |-> 0]
  /\ dumped' = [v \in Versions |-> NotDumped]
  /\ UNCHANGED << home, tool, fsVars, enabled, result, bytes, running,
                  twiceVars >>

(***************************************************************************)
(* dump_flags(version), step by step, run by thread t.                     *)
(***************************************************************************)
\* StepOrder of a dump_flags that opens the file before it decodes.
StepOrderOpenFirst == << "check", "open", "decode", "write" >>

\* The statements of dump_flags that follow subprocess.run, in source order.
StepOrder == << "check", "decode", "open", "write" >>

\* Where a thread is after statement p has completed.
After(p) ==
  LET i == CHOOSE k \in 1..Len(StepOrder) : StepOrder[k] = p
  IN IF i = Len(StepOrder) THEN "returned" ELSE StepOrder[i + 1]

\* An exception leaves dump_flags: the frame and its locals are gone.
Raise(t, kind, detail) ==
  /\ pc' = [pc EXCEPT ![t] = "raised"]
  /\ error' = [error EXCEPT ![t] = Raised(kind, detail)]
  /\ result' = [result EXCEPT ![t] = NoResult]
  /\ bytes' = [bytes EXCEPT ![t] = NoBytes]
  /\ Record(NoCall, FALSE)

\* The arguments of subprocess.run cannot be built (os.environ["HOME"] is a
\* KeyError when HOME is not set), or there is no executable to run
\* (shutil.which returned None): no process is started.
SpawnFail(t) ==
  /\ pc[t] = "call"
  /\ home = None \/ bazelisk = None
  /\ Raise(t, IF home = None THEN "KeyError" ELSE "TypeError", "")
  /\ UNCHANGED << envVars, fsVars, scriptVars, arg, running, snap, invocations,
                  dumped >>

\* subprocess.run starts the tool, with USE_BAZEL_VERSION set to version.
Spawn(t) ==
  /\ pc[t] = "call"
  /\ home # None /\ bazelisk # None
  /\ pc' = [pc EXCEPT ![t] = "running"]
  /\ running' = running \cup { arg[t] }
  /\ invocations' = [invocations EXCEPT ![arg[t]] = @ + 1]
  /\ UNCHANGED << envVars, fsVars, scriptVars, frameVars, error, snap, dumped,
                  twiceVars >>

\* The tool exits and subprocess.run returns what it captured.
ToolExit(t) ==
  /\ pc[t] = "running"
  /\ \E o \in ToolOutcomes :
       /\ result' = [result EXCEPT ![t] = o]
       /\ Record(NoCall, prev = Call(arg[t], o.stdout) /\ o.returncode = 0)
  /\ pc' = [pc EXCEPT ![t] = StepOrder[1]]
  /\ running' = running \ { arg[t] }
  /\ UNCHANGED << envVars, fsVars, scriptVars, arg, bytes, error, snap,
                  invocations, dumped >>

\* The tool exits and what it printed is not UTF-8: subprocess.run raises.
ToolGarbage(t) ==
  /\ pc[t] = "running"
  /\ running' = running \ { arg[t] }
  /\ Raise(t, "UnicodeDecodeError", "")
  /\ UNCHANGED << envVars, fsVars, scriptVars, arg, snap, invocations, dumped >>

\* if result.returncode != 0
Failed(res) == res.returncode # 0

\* FailureDetail with a message of the script's own in place of the text.
FailureDetailFixed(res) == "bazel failed"

\* The argument of Exception(...).
FailureDetail(res) == res.stderr

\* RaiseFailure of a dump_flags that runs the tool again when it has failed.
RetryFailure(t) ==
  /\ pc' = [pc EXCEPT ![t] = "call"]
  /\ result' = [result EXCEPT ![t] = NoResult]
  /\ UNCHANGED << bytes, error, twiceVars >>

\* raise Exception(result.stderr)
RaiseFailure(t) ==
  /\ Raise(t, "Exception", FailureDetail(result[t]))

\* The check of the exit status.
CheckReturn(t) ==
  /\ pc[t] = "check"
  /\ \/ /\ Failed(result[t])
        /\ RaiseFailure(t)
     \/ /\ ~Failed(result[t])
        /\ pc' = [pc EXCEPT ![t] = After("check")]
        /\ UNCHANGED << result, bytes, error, twiceVars >>
  /\ UNCHANGED << envVars, fsVars, scriptVars, arg, running, snap, invocations,
                  dumped >>

\* bytes = base64.b64decode(result.stdout): a text with a character outside
\* ASCII is a ValueError, a text the decoder rejects a binascii.Error.
Decode(t) ==
  /\ pc[t] = "decode"
  /\ LET out == result[t].stdout
         d == B64Decode(out)
     IN
       \/ /\ d.ok
          /\ bytes' = [bytes EXCEPT ![t] = [has |-> TRUE, data |-> d.data]]
          /\ pc' = [pc EXCEPT ![t] = After("decode")]
          /\ UNCHANGED << result, error, twiceVars >>
       \/ /\ ~d.ok
          /\ Raise(t, IF \E i \in 1..Len(out) : ~IsAscii(out[i])
                      THEN "ValueError" ELSE "binascii.Error", "")
  /\ UNCHANGED << envVars, fsVars, scriptVars, arg, running, snap, invocations,
                  dumped >>

\* OpenMode of a script that appends to the file.
OpenModeAppend == "ab"

\* The mode of open(...).
OpenMode == "wb"

\* What open(path, mode) leaves of the file at path: "wb" creates or
\* truncates it.
Opened(f, mode) == IF mode = "wb" \/ ~f.exists THEN File(<< >>) ELSE f

\* The offset the opened file is written at: its start, or its end when
\* the file is opened for appending.
WriteAt(f, mode) == IF mode = "wb" THEN 0 ELSE Len(f.data)

\* The file f with bs written at offset pos.
Written(f, pos, bs) ==
  File(SubSeq(f.data, 1, pos) \o bs
         \o SubSeq(f.data, pos + Len(bs) + 1, Len(f.data)))

\* with open(f"proto/flag-dumps/{version}.data", "wb") as f: the file is
\* created or truncated, or cannot be opened.
Open(t) ==
  /\ pc[t] = "open"
  /\ \/ /\ dirState = "dir"
        /\ files' = [files EXCEPT ![OutPath(arg[t])] = Opened(@, OpenMode)]
        /\ pc' = [pc EXCEPT ![t] = After("open")]
        /\ UNCHANGED << result, bytes, error, twiceVars >>
     \/ /\ Raise(t, "PermissionError", "")
        /\ UNCHANGED files
  /\ UNCHANGED << envVars, dirState, scriptVars, arg, running, snap, invocations,
                  dumped >>

\* f.write(bytes) and the close that ends the with block: all the bytes
\* reach the file, or only the first k of them do (the disk is full) and
\* the write raises.
Write(t) ==
  /\ pc[t] = "write"
  /\ LET path == OutPath(arg[t])
         f == IF files[path].exists THEN files[path] ELSE File(<< >>)
         pos == WriteAt(f, OpenMode)
         next == After("write")
     IN
       \/ /\ files' = [files EXCEPT ![path] = Written(f, pos, bytes[t].data)]
          /\ pc' = [pc EXCEPT ![t] = next]
          /\ dumped' = IF next = "returned"
                        THEN [dumped EXCEPT ![arg[t]] =
                                [has |-> TRUE, file |-> files'[path]]]
                        ELSE dumped
          /\ IF next = "returned"
             THEN Record(Call(arg[t], result[t].stdout), repeat)
             ELSE UNCHANGED twiceVars
          /\ UNCHANGED << result, bytes, error >>
       \/ /\ \E k \in 0..(Len(bytes[t].data) - 1) :
               files' = [files EXCEPT ![path] =
                           Written(f, pos, SubSeq(bytes[t].data, 1, k))]
          /\ Raise(t, "OSError", "No space left on device")
          /\ UNCHANGED dumped
  /\ UNCHANGED << envVars, dirState, scriptVars, arg, running, snap, invocations >>

Step(t) ==
  \/ SpawnFail(t)
  \/ Spawn(t)
  \/ ToolExit(t)
  \/ ToolGarbage(t)
  \/ CheckReturn(t)
  \/ Decode(t)
  \/ Open(t)
  \/ Write(t)

(***************************************************************************)
(* The script: a single thread runs the statements in order.               *)
(***************************************************************************)
Next ==
  \/ Which
  \/ Makedirs
  \/ CallNext
  \/ Step("main")
  \/ Exit
  \/ Rerun

Spec == Init /\ [][Next]_vars

(***************************************************************************)
(* The script as it stands, with one dump_flags line enabled, run again    *)
(* and again, the history of its successive calls kept.                    *)
(***************************************************************************)
InitTwice == InitScript /\ observe = TRUE /\ Cardinality(enabled) = 1

SpecTwice == InitTwice /\ [][Next]_vars

(***************************************************************************)
(* Two calls of dump_flags for different versions, run by two threads      *)
(* whose steps interleave, in a directory that holds any of the files.     *)
(* The tool's outcomes are a few, one of each kind.                        *)
(***************************************************************************)
InitConc ==
  /\ bazelisk = "/usr/bin/bazel"
  /\ home \in { None, "/root" }
  /\ tool = "sample"
  /\ dirState = "dir"
  /\ files \in { fs \in [Paths -> { Absent, File(OldData) }] : fs[OtherPath].exists }
  /\ enabled = {}
  /\ ip = 0
  /\ pc = [t \in Threads |-> "call"]
  /\ arg \in { a \in [Threads -> Versions] : a["main"] # a["other"] }
  /\ InitFrames
  /\ InitHistory
  /\ observe = FALSE

NextConc == \E t \in Threads : Step(t)

SpecConc == InitConc /\ [][NextConc]_vars

(***************************************************************************)
(* Reference definitions the properties are stated with.  None of them is  *)
(* used by the actions above.                                              *)
(***************************************************************************)
\* The character of a sextet, in the alphabet of RFC 4648.
B64Char(v) ==
  IF v <= 25 THEN 65 + v
  ELSE IF v <= 51 THEN 71 + v
  ELSE IF v <= 61 THEN v - 4
  ELSE IF v = 62 THEN 43
  ELSE 47

\* The base64 encoding of a byte sequence (RFC 4648, with padding).
RECURSIVE B64Encode(_)
B64Encode(bs) ==
  IF Len(bs) = 0 THEN << >>
  ELSE IF Len(bs) = 1
  THEN << B64Char(bs[1] \div 4), B64Char((bs[1] % 4) * 16), 61, 61 >>
  ELSE IF Len(bs) = 2
  THEN << B64Char(bs[1] \div 4),
          B64Char((bs[1] % 4) * 16 + bs[2] \div 16),
          B64Char((bs[2] % 16) * 4), 61 >>
  ELSE << B64Char(bs[1] \div 4),
          B64Char((bs[1] % 4) * 16 + bs[2] \div 16),
          B64Char((bs[2] % 16) * 4 + bs[3] \div 64),
          B64Char(bs[3] % 64) >> \o B64Encode(SubSeq(bs, 4, Len(bs)))

\* The characters A-Z a-z 0-9 + / of the base64 alphabet.
IsB64Char(c) ==
  \/ c >= 65 /\ c <= 90
  \/ c >= 97 /\ c <= 122
  \/ c >= 48 /\ c <= 57
  \/ c = 43
  \/ c = 47

\* The text is valid base64 (RFC 4648): groups of four characters of the
\* alphabet, the last group ending in at most two pads.
IsValidBase64(s) ==
  /\ Len(s) % 4 = 0
  /\ \A i \in 1..Len(s) :
       \/ IsB64Char(s[i])
       \/ /\ s[i] = 61
          /\ i >= Len(s) - 1
          /\ i = Len(s) - 1 => s[Len(s)] = 61

\* The sextet of a character of the alphabet.
B64Sextet(c) == CHOOSE v \in 0..63 : B64Char(v) = c

\* The text is the base64 encoding of some byte sequence: valid base64 whose
\* last group, when padded, leaves the bits it does not use at zero.
IsEncoding(s) ==
  /\ IsValidBase64(s)
  /\ Len(s) > 0 /\ s[Len(s)] = 61 =>
       IF s[Len(s) - 1] = 61
       THEN B64Sextet(s[Len(s) - 2]) % 16 = 0
       ELSE B64Sextet(s[Len(s) - 1]) % 4 = 0

\* The path of the dump of version v, as the script's documentation gives it.
DumpPath(v) == << "proto/flag-dumps", v, ".data" >>

\* The calls in progress or just ended: the threads inside dump_flags.
InCall(t) == pc[t] \in { "call", "running", "check", "decode", "open", "write",
                         "returned" }

(***************************************************************************)
(* C1.  When the tool exits with status 0 and prints P, then once          *)
(* dump_flags(V) has returned, proto/flag-dumps/V.data exists and holds    *)
(* exactly the bytes P decodes to; when P is the base64 encoding of some   *)
(* bytes, these are the bytes the file holds (encoding the file's contents *)
(* gives back P).                                                          *)
(***************************************************************************)
C1_FileHoldsDecodedPayload ==
  \A t \in Threads :
    pc[t] = "returned" =>
      LET P == result[t].stdout
          f == files[DumpPath(arg[t])]
      IN /\ result[t].has /\ result[t].returncode = 0
         /\ f.exists
         /\ f.data = B64Decode(P).data
         /\ IsEncoding(P) => B64Encode(f.data) = P

\* A dump has returned whose payload "QQQ=" was written as the bytes 65, 4.
C1_Witness ==
  /\ pc["main"] = "returned"
  /\ result["main"].stdout = << 81, 81, 81, 61 >>
  /\ files[DumpPath(arg["main"])] = File(<< 65, 4 >>)

(***************************************************************************)
(* C2.  When the tool exits with a non-zero status, dump_flags(V) fails    *)
(* at the check of the status, with an Exception whose detail is the       *)
(* captured standard-error text, and proto/flag-dumps/V.data is as it was  *)
(* when the call began: not created, not modified.                         *)
(***************************************************************************)
C2_Unmodified ==
  \A t \in Threads :
    /\ result[t].has /\ result[t].returncode # 0 =>
         /\ pc[t] = "check"
         /\ files[DumpPath(arg[t])] = snap[DumpPath(arg[t])]
    /\ pc[t] = "raised" /\ error[t].kind = "Exception" =>
         files[DumpPath(arg[t])] = snap[DumpPath(arg[t])]

C2_Raises ==
  \A t \in Threads :
    (result[t].has /\ result[t].returncode # 0 /\ pc'[t] # pc[t]) =>
      /\ pc'[t] = "raised"
      /\ error'[t] = [kind |-> "Exception", detail |-> result[t].stderr]
      /\ files' = files

C2_ToolFailureRaisesStderr == []C2_Unmodified /\ [][C2_Raises]_vars

\* A dump has failed with the tool's "unknown version", over a file that an
\* earlier run had written: the file is still there.
C2_Witness ==
  /\ pc["main"] = "raised"
  /\ error["main"] = [kind |-> "Exception", detail |-> "unknown version"]
  /\ files[DumpPath(arg["main"])] = File(<< 65 >>)

(***************************************************************************)
(* C3.  As claimed: whenever the tool exits with status 0 and its standard *)
(* output is not valid base64, dump_flags fails with a decoding error and  *)
(* never gets past the decoding.                                           *)
(***************************************************************************)
C3_InvalidBase64NeverDecoded ==
  \A t \in Threads :
    (result[t].has /\ result[t].returncode = 0
       /\ ~IsValidBase64(result[t].stdout)) =>
      pc[t] \in { "check", "decode" }

\* The number of characters of the alphabet before position i.
DataBefore(s, i) == Cardinality({ j \in 1..(i - 1) : IsB64Char(s[j]) })

\* The pad at position i completes a group: it follows three characters of
\* the group, or two of them and another pad.
Completes(s, i) ==
  /\ s[i] = 61
  /\ \/ DataBefore(s, i) % 4 = 3
     \/ /\ DataBefore(s, i) % 4 = 2
        /\ \E j \in 1..(i - 1) : s[j] = 61 /\ DataBefore(s, j) = DataBefore(s, i)

\* The text has a character outside ASCII, or its characters of the
\* alphabet end inside a group that no padding completes.
Undecodable(s) ==
  \/ \E i \in 1..Len(s) : s[i] >= 128
  \/ /\ \A i \in 1..Len(s) : ~Completes(s, i)
     /\ DataBefore(s, Len(s) + 1) % 4 # 0

(***************************************************************************)
(* C3, amended.  Whenever the tool exits with status 0 and its standard    *)
(* output has a character outside ASCII, or has characters of the base64   *)
(* alphabet that end inside a group of four which no padding completes,    *)
(* dump_flags fails at the decoding with a decoding error (a ValueError,   *)
(* of which binascii.Error is one) and never gets past it.  (The other     *)
(* characters outside the alphabet are skipped, not rejected.)             *)
(***************************************************************************)
C3_NeverPastDecode ==
  \A t \in Threads :
    (result[t].has /\ result[t].returncode = 0
       /\ Undecodable(result[t].stdout)) =>
      pc[t] \in { "check", "decode" }

C3_DecodeRaises ==
  \A t \in Threads :
    (result[t].has /\ result[t].returncode = 0
       /\ Undecodable(result[t].stdout)
       /\ pc[t] = "decode" /\ pc'[t] # pc[t]) =>
      /\ pc'[t] = "raised"
      /\ error'[t].kind \in { "ValueError", "binascii.Error" }

C3_UndecodableOutputFails == []C3_NeverPastDecode /\ [][C3_DecodeRaises]_vars

\* A dump has failed with the decoder's error.
C3_Witness ==
  /\ pc["main"] = "raised"
  /\ error["main"].kind = "binascii.Error"
  /\ invocations[arg["main"]] = 1

(***************************************************************************)
(* C4.  The first error in the dump of a version aborts the run: once a    *)
(* call has raised, the run does nothing more (the only step left is a     *)
(* new run of the script); no tool process was or is started and no file   *)
(* is written for the versions that follow; no tool process is started     *)
(* twice for one version; and the files of the versions dumped before are  *)
(* as they were when their dumps returned.                                 *)
(***************************************************************************)
C4_Aborted ==
  /\ \A v \in Versions : invocations[v] <= 1
  /\ pc["main"] = "raised" =>
       /\ running = {}
       /\ \A j \in enabled :
            /\ j > ip => invocations[SourceVersions[j]] = 0
            /\ j < ip =>
                 /\ dumped[SourceVersions[j]].has
                 /\ files[DumpPath(SourceVersions[j])]
                      = dumped[SourceVersions[j]].file

C4_NothingAfter ==
  /\ \A j \in enabled :
       j > ip' => files'[DumpPath(SourceVersions[j])]
                    = files[DumpPath(SourceVersions[j])]
  /\ pc["main"] = "raised" =>
       /\ pc'["main"] = "start"
       /\ ip' = 0
       /\ files' = files
       /\ running' = {}

C4_FirstErrorAbortsRun == []C4_Aborted /\ [][C4_NothingAfter]_vars

\* The dump of the first of two versions has failed at the decoding: the
\* tool was started once for it, and not at all for the second.
C4_Witness ==
  /\ pc["main"] = "raised"
  /\ error["main"].kind = "binascii.Error"
  /\ enabled = { 14, 15 } /\ ip = 14
  /\ invocations = [v \in Versions |-> IF v = "7.0.2" THEN 1 ELSE 0]

(***************************************************************************)
(* C5.  When dump_flags(V) returns for the second time in succession, the  *)
(* tool having exited with status 0 and printed the same standard output   *)
(* both times, proto/flag-dumps/V.data holds what it held after the first  *)
(* time (which is what it held when the second call began: nothing runs    *)
(* in between but the end and the start of the script).                    *)
(***************************************************************************)
C5_SecondDumpLeavesSameFile ==
  (pc["main"] = "returned" /\ repeat) =>
    /\ files[DumpPath(arg["main"])].exists
    /\ files[DumpPath(arg["main"])] = snap[DumpPath(arg["main"])]

\* The dump of 7.1.0 has returned a second time with the same payload, the
\* file holding the same three bytes as before.
C5_Witness ==
  /\ pc["main"] = "returned" /\ repeat
  /\ arg["main"] = "7.1.0"
  /\ result["main"].stdout = << 81, 81, 81, 81 >>
  /\ snap[DumpPath("7.1.0")] = File(<< 65, 4, 16 >>)
  /\ files[DumpPath("7.1.0")] = File(<< 65, 4, 16 >>)

(***************************************************************************)
(* C6.  os.makedirs on a directory that exists does not fail and changes   *)
(* nothing, and no step of the script changes, creates or removes a file   *)
(* of the directory other than the dump of the version of the call in      *)
(* progress.                                                               *)
(***************************************************************************)
C6_Makedirs ==
  (pc["main"] = "makedirs" /\ dirState = "dir" /\ pc'["main"] # pc["main"]) =>
    /\ pc'["main"] = "idle"
    /\ error' = error
    /\ dirState' = "dir"
    /\ files' = files

C6_OtherFilesKept ==
  \A p \in Paths :
    files'[p] # files[p] =>
      \E t \in Threads : InCall(t) /\ p = DumpPath(arg[t])

C6_MakedirsIdempotent == [][C6_Makedirs /\ C6_OtherFilesKept]_vars

\* A later run of the script has passed os.makedirs: the directory existed,
\* with the dump of an earlier run and the unrelated file in it.
C6_Witness ==
  /\ pc["main"] = "idle" /\ ip = 0
  /\ dirState = "dir"
  /\ files[DumpPath("7.1.0")] = File(<< 65, 4 >>)
  /\ files[OtherPath] = File(OldData)

(***************************************************************************)
(* C7.  When dump_flags(V) has returned, proto/flag-dumps/V.data exists,   *)
(* and every other file of the directory is as it was when the call        *)
(* began: none created, modified or deleted.                               *)
(***************************************************************************)
C7_ExactlyOneFile ==
  \A t \in Threads :
    pc[t] = "returned" =>
      /\ files[DumpPath(arg[t])].exists
      /\ \A p \in Paths : p # DumpPath(arg[t]) => files[p] = snap[p]

\* The dump of 7.1.0 has returned, creating its file beside the dump of
\* 7.0.2 and the unrelated file.
C7_Witness ==
  /\ pc["main"] = "returned" /\ arg["main"] = "7.1.0"
  /\ ~snap[DumpPath("7.1.0")].exists
  /\ files[DumpPath("7.1.0")] = File(<< 65 >>)
  /\ files[DumpPath("7.0.2")] = File(<< 65, 4, 16 >>)
  /\ files[OtherPath] = File(OldData)

(***************************************************************************)
(* C9.  The script runs one dump at a time: at most one tool process is    *)
(* alive; it is the process of the call in progress, which waits for it;   *)
(* every earlier call of the run has returned, its file written; no        *)
(* process is alive while a file is opened or written; and a call starts   *)
(* the tool exactly once.                                                  *)
(***************************************************************************)
C9_OneDumpAtATime ==
  /\ Cardinality(running) <= 1
  /\ \A v \in running :
       /\ pc["main"] = "running" /\ arg["main"] = v
       /\ \A j \in enabled : j < ip => dumped[SourceVersions[j]].has
  /\ pc["main"] = "running" => running = { arg["main"] }
  /\ pc["main"] \in { "open", "write" } => running = {}
  /\ \A v \in Versions : invocations[v] <= 1
  /\ pc["main"] \in { "running", "check", "decode", "open", "write", "returned" }
       => invocations[arg["main"]] = 1
  /\ \A j \in enabled : j > ip => invocations[SourceVersions[j]] = 0

\* The tool runs for the second version, the first one's dump written.
C9_Witness ==
  /\ pc["main"] = "running" /\ running = { "7.1.0" }
  /\ enabled = { 14, 15 }
  /\ dumped["7.0.2"].has /\ files[DumpPath("7.0.2")] = File(<< 65 >>)
  /\ invocations = [v \in Versions |-> 1]

(***************************************************************************)
(* C10.  dump_flags checks the exit status, then decodes, then opens the   *)
(* file, then writes it.  The file is as it was when the call began until  *)
(* the decoding has succeeded, and so when the decoding has failed.        *)
(***************************************************************************)
C10_Untouched ==
  \A t \in Threads :
    /\ pc[t] \in { "open", "write", "returned" } =>
         result[t].has /\ result[t].returncode = 0 /\ bytes[t].has
    /\ \/ pc[t] \in { "call", "running", "check", "decode", "open" }
       \/ pc[t] = "raised" /\ error[t].kind \in { "ValueError", "binascii.Error" }
       => files[DumpPath(arg[t])] = snap[DumpPath(arg[t])]

C10_Order ==
  \A t \in Threads :
    /\ pc[t] = "check" /\ pc'[t] # pc[t] => pc'[t] \in { "decode", "raised" }
    /\ pc[t] = "decode" /\ pc'[t] # pc[t] => pc'[t] \in { "open", "raised" }
    /\ pc[t] = "open" /\ pc'[t] # pc[t] => pc'[t] \in { "write", "raised" }
    /\ pc[t] = "write" /\ pc'[t] # pc[t] => pc'[t] \in { "returned", "raised" }
    /\ InCall(t) /\ files'[DumpPath(arg[t])] # files[DumpPath(arg[t])] =>
         pc[t] \in { "open", "write" }

C10_DecodeBeforeOpen == []C10_Untouched /\ [][C10_Order]_vars

\* The decoding has failed in a dump over the file an earlier run wrote.
C10_Witness ==
  /\ pc["main"] = "raised"
  /\ error["main"].kind = "binascii.Error"
  /\ files[DumpPath(arg["main"])] = File(<< 65, 4 >>)

(***************************************************************************)
(* C8.  Two calls dump_flags(V1) and dump_flags(V2), V1 # V2, whose steps  *)
(* interleave in any way: each version's file ends as the call for that    *)
(* version alone leaves it, whichever call ran first.  A call that has     *)
(* returned leaves the bytes its own payload decodes to; a call that       *)
(* failed before it opened the file leaves the file as it was; a call      *)
(* whose write was cut short leaves a file; and no other file changes.     *)
(***************************************************************************)
C8_InterleavingLikeSequence ==
  /\ \A t \in Threads :
       LET p == DumpPath(arg[t]) IN
         /\ pc[t] = "returned" =>
              files[p] = File(B64Decode(result[t].stdout).data)
         /\ pc[t] = "raised" =>
              IF error[t].kind = "OSError"
              THEN files[p].exists
              ELSE files[p] = snap[p]
         /\ pc[t] \in { "call", "running", "check", "decode", "open" } =>
              files[p] = snap[p]
  /\ \A p \in Paths :
       (\A t \in Threads : p # DumpPath(arg[t])) => files[p] = snap[p]

\* Both calls have returned, after the two files were opened one after the
\* other and before either was written; each file holds its own payload.
C8_Witness ==
  /\ pc = [t \in Threads |-> "returned"]
  /\ arg = [t \in Threads |-> IF t = "main" THEN "7.1.0" ELSE "7.0.2"]
  /\ files[DumpPath("7.1.0")] = File(<< 65 >>)
  /\ files[DumpPath("7.0.2")] = File(<< 65, 4, 16 >>)
  /\ snap[DumpPath("7.1.0")] = File(OldData)

=============================================================================
